---- MODULE Spec2Model ----
(***************************************************************************)
(* Model of the rquickjs task schedular, core/src/runtime/schedular.rs.    *)
(*                                                                         *)
(* One thread owns the Schedular and runs push (spawn), poll and clear;    *)
(* a drive step of a task runs on that thread too and may itself spawn,    *)
(* poll (reentrantly), clear, wake or clone its waker.  Wakers cloned out  *)
(* of a drive step are held by other threads, which invoke or drop them    *)
(* at any time.                                                            *)
(*                                                                         *)
(* usize values (len, the Arc strong count rc) are kept as their signed    *)
(* residue modulo 2^64: -1 stands for usize::MAX, and ULess compares the   *)
(* residues as unsigned numbers.  This is the arithmetic of a build        *)
(* without overflow checks.                                                *)
(***************************************************************************)
EXTENDS Integers, Sequences, FiniteSets, TLC

\* ---- bounds of the model ----
MaxTasks == 2      \* tasks ever spawned, with wakers on other threads (Spec)
MaxSeqTasks == 3   \* tasks ever spawned, all wakers on the owning thread (SeqSpec)
MaxDepth == 2      \* poll frames on the call stack (1 = no reentrancy)
MaxWakers == 1     \* wakers of one task held outside the schedular

Tasks == 1..(IF MaxTasks > MaxSeqTasks THEN MaxTasks ELSE MaxSeqTasks)
None == 0

\* The futures a caller may spawn, by what one drive step of them does:
\*   "ready"    returns Poll::Ready at once
\*   "pending"  returns Poll::Pending and does nothing else
\*   "spin"     wakes its own waker, then returns Poll::Pending
\*   "any"      anything: wakes or clones its waker, spawns, polls or clears
\*              the schedular, then returns Ready or Pending, or unwinds
Kinds == {"ready", "pending", "spin", "any"}

\* The notification handles (cx.waker()) a caller passes to poll: "root" is the
\* one of the root executor, "other" any other one.  A nested call passes
\* "other" in HandleSpec and "root" in the other specifications.
Handles == {"root", "other"}

VARIABLES
    ntasks,        \* number of tasks allocated so far (tasks 1..ntasks exist)
    tasks,         \* per task: the Task body fields, its Arc strong count rc, the
                   \* number of task_drop calls, (tracked tasks) whether it was
                   \* never driven, and whether it was spawned or one of its
                   \* wakers invoked since its last drive step began
    len,           \* Schedular::len
    reentrant,     \* Schedular::reentrant
    all_next,      \* Schedular::all_next (head of the all-task list)
    all_prev,      \* Schedular::all_prev (tail of the all-task list)
    queue,         \* Schedular::should_poll: entries in push order
    qwaker,        \* should_poll.waker(): the handle registered, or "none"
    signalled,     \* the handle of the root executor was signalled since the
                   \* last non-nested poll call registered it
    wakers,        \* per task: wakers held outside the schedular
    stack,         \* poll frames in progress, innermost last
    clearing,      \* clear() is spinning on an inconsistent queue
    ret,           \* how the last poll or clear call on this thread ended
    kind           \* per task: what the spawned future does when driven

vars == <<ntasks, tasks, len, reentrant, all_next, all_prev, queue, qwaker,
          signalled, wakers, stack, clearing, ret, kind>>

\* ---- usize arithmetic on signed residues ----
\* a < b for usize values held as signed residues modulo 2^64
ULess(a, b) ==
    IF (a < 0) = (b < 0) THEN a < b ELSE b < 0

\* ---- Task::new (task.rs is not part of the sources; from spec section 3/4.1) ----
NewTask ==
    [queued |-> TRUE, running |-> FALSE, done |-> FALSE,
     next |-> None, prev |-> None, rc |-> 0, dropped |-> 0, fresh |-> TRUE,
     woken |-> TRUE]

NoRet == [res |-> "None"]
Cleared == [res |-> "Cleared"]
NoDrv == [t \in Tasks |-> 0]

\* The heap the list operations work on.
Heap == [tasks |-> tasks, all_next |-> all_next, all_prev |-> all_prev, len |-> len]

Init ==
    /\ ntasks = 0
    /\ tasks = [t \in Tasks |-> NewTask]
    /\ len = 0
    /\ reentrant = 0
    /\ all_next = None
    /\ all_prev = None
    /\ queue = <<>>
    /\ qwaker = "none"
    /\ signalled = FALSE
    /\ wakers = [t \in Tasks |-> 0]
    /\ stack = <<>>
    /\ clearing = FALSE
    /\ ret = NoRet
    /\ kind = [t \in Tasks |-> "none"]

\* ---- Schedular::is_empty ----
is_empty == all_next = None

\* ---- Schedular::push_task_to_all ----
push_task_to_all(h, t) ==
    LET t1 == [h.tasks EXCEPT ![t].next = h.all_next]
        t2 == IF h.all_next # None
              THEN [t1 EXCEPT ![h.all_next].prev = t]
              ELSE t1
    IN [h EXCEPT !.tasks = t2,
                 !.all_next = t,
                 !.all_prev = IF h.all_prev = None THEN t ELSE h.all_prev]

\* ---- Schedular::pop_task_all ----
\* lines 113-130: mark the task done, detach it, drop the reference of the list
Unlinked(h, t) ==
    LET \* queued.store(true); if !done.replace(true) { task_drop() }
        t1 == [h.tasks EXCEPT ![t].queued = TRUE,
                              ![t].done = TRUE,
                              ![t].dropped = IF h.tasks[t].done THEN @ ELSE @ + 1]
        \* detach from the all list
        nx == t1[t].next
        t2 == IF nx # None THEN [t1 EXCEPT ![nx].prev = t1[t].prev] ELSE t1
        ap == IF nx # None THEN h.all_prev ELSE t1[t].prev
        pv == t2[t].prev
        t3 == IF pv # None THEN [t2 EXCEPT ![pv].next = t2[t].next] ELSE t2
        an == IF pv # None THEN h.all_next ELSE t2[t].next
        \* drop the ownership of the all list
        t4 == [t3 EXCEPT ![t].rc = @ - 1]
    IN [tasks |-> t4, all_next |-> an, all_prev |-> ap, len |-> h.len]

\* (a variant that forgets line 133)
pop_task_all_KeepLen(h, t) == Unlinked(h, t)

\* (a variant of line 113 that stores false)
pop_task_all_Unqueue(h, t) ==
    [Unlinked(h, t) EXCEPT !.len = h.len - 1, !.tasks[t].queued = FALSE]

pop_task_all(h, t) ==
    [Unlinked(h, t) EXCEPT !.len = h.len - 1]

\* ---- positions of the owning thread ----
Top == stack[Len(stack)]
Idle == stack = <<>> /\ ~clearing
InDrive == stack # <<>> /\ ~clearing /\ Top.pc = "drive"
InLoop == stack # <<>> /\ ~clearing /\ Top.pc = "pop"
\* the drive step in progress is one of a future that may do anything
AnyDrive == InDrive /\ kind[Top.cur] = "any"
\* push, poll and clear are called by the root executor or from inside a drive step
CanCall == Idle \/ AnyDrive

\* the futures of a fixed behaviour, whose drive steps are counted
Tracked(t) == kind[t] \in {"ready", "pending", "spin"}

\* The locals of one poll call (lines 153-155, 175), and for the properties:
\* drv counts the drive steps the call started per tracked task, fresh holds the
\* tracked tasks that had never been driven when the call started, woke tells that the future
\* being driven has woken itself, cleared that clear() was called since the call
\* started, cx is the handle the caller passed.
NewFrame ==
    [pc |-> "pop", cur |-> None, iteration |-> 0, yielded |-> 0, cx |-> "root",
     popped_running |-> 0, woke |-> FALSE, drv |-> NoDrv, cleared |-> FALSE,
     fresh |-> {t \in 1..ntasks : Tracked(t) /\ ~tasks[t].done /\ tasks[t].fresh}]

RetOf(f, res, via, nested, notified) ==
    [res |-> res, via |-> via, nested |-> nested,
     iteration |-> f.iteration, popped_running |-> f.popped_running,
     drv |-> f.drv, fresh |-> f.fresh, cleared |-> f.cleared, cx |-> f.cx,
     notified |-> notified]

\* the poll call of the innermost frame ends
Leave(f, res, via, notified) ==
    /\ ret' = RetOf(f, res, via, Len(stack) > 1, notified)
    /\ stack' = SubSeq(stack, 1, Len(stack) - 1)

\* ---- queue.rs and atomic_waker.rs are not part of the sources; spec section 3 ----
\* Queue::push by the owning thread: the entry is linked before the thread goes on
PushLinked(q, t) == Append(q, [t |-> t, linked |-> TRUE])
\* Queue::push by another thread, first half: the entry is in, not yet linked
PushUnlinked(q, t) == Append(q, [t |-> t, linked |-> FALSE])
\* Queue::pop
PopKind(q) ==
    IF q = <<>> THEN "Empty"
    ELSE IF Head(q).linked THEN "Value" ELSE "Inconsistant"

\* AtomicWaker::wake on should_poll.waker(): the registered waker is taken and woken
QueueWake ==
    /\ qwaker' = "none"
    /\ signalled' = (signalled \/ qwaker = "root")

\* ---- Schedular::push ----
Spawn(limit, kinds) ==
    /\ CanCall
    /\ ntasks < limit
    /\ LET t == ntasks + 1
           h0 == [Heap EXCEPT !.tasks[t] = [NewTask EXCEPT !.rc = 2]]
           h1 == push_task_to_all(h0, t)
       IN /\ ntasks' = t
          /\ tasks' = h1.tasks
          /\ all_next' = h1.all_next
          /\ all_prev' = h1.all_prev
          /\ queue' = PushLinked(queue, t)
          /\ len' = len + 1
          /\ \E k \in kinds : kind' = [kind EXCEPT ![t] = k]
    /\ ret' = NoRet
    /\ UNCHANGED <<reentrant, qwaker, signalled, wakers, stack, clearing>>

\* (a variant that registers the waker before the is_empty test of line 146)
PollWith_RegisterFirst(c) ==
    /\ CanCall
    /\ Len(stack) < MaxDepth
    /\ qwaker' = c
    /\ signalled' = (stack # <<>> /\ signalled)
    /\ IF is_empty
       THEN /\ ret' = RetOf([NewFrame EXCEPT !.cx = c], "Empty", "empty_list",
                            stack # <<>>, FALSE)
            /\ stack' = stack
       ELSE /\ stack' = Append(stack, [NewFrame EXCEPT !.cx = c])
            /\ ret' = NoRet
    /\ UNCHANGED <<ntasks, tasks, len, reentrant, all_next, all_prev, queue,
                   wakers, clearing, kind>>

\* ---- Schedular::poll, lines 146-155, called with the handle c ----
PollWith(c) ==
    /\ CanCall
    /\ Len(stack) < MaxDepth
    /\ IF is_empty
       THEN /\ ret' = RetOf([NewFrame EXCEPT !.cx = c], "Empty", "empty_list",
                            stack # <<>>, FALSE)
            /\ UNCHANGED <<qwaker, signalled, stack>>
       ELSE /\ qwaker' = c
            /\ signalled' = (stack # <<>> /\ signalled)
            /\ stack' = Append(stack, [NewFrame EXCEPT !.cx = c])
            /\ ret' = NoRet
    /\ UNCHANGED <<ntasks, tasks, len, reentrant, all_next, all_prev, queue,
                   wakers, clearing, kind>>

\* every caller passes the handle of the root executor (a future passes on
\* the one it was given)
Poll == PollWith("root")

\* the root executor passes its handle, a nested caller another one
PollOther == PollWith(IF stack = <<>> THEN "root" ELSE "other")

\* lines 161-165 and 191-195
PollResult(iteration) ==
    IF iteration > 0 THEN "PendingProgress" ELSE "Pending"

\* line 160: Pop::Empty
PopEmpty ==
    /\ InLoop
    /\ PopKind(queue) = "Empty"
    /\ Leave(Top, PollResult(Top.iteration), "empty", FALSE)
    /\ UNCHANGED <<ntasks, tasks, len, reentrant, all_next, all_prev, queue,
                   qwaker, signalled, wakers, clearing, kind>>

\* (a variant without the wake_by_ref of line 169)
PopInconsistant_NoWake ==
    /\ InLoop
    /\ PopKind(queue) = "Inconsistant"
    /\ Leave(Top, "ShouldYield", "inconsistant", FALSE)
    /\ UNCHANGED <<ntasks, tasks, len, reentrant, all_next, all_prev, queue,
                   qwaker, signalled, wakers, clearing, kind>>

\* lines 168-171: Pop::Inconsistant
PopInconsistant ==
    /\ InLoop
    /\ PopKind(queue) = "Inconsistant"
    /\ signalled' = (signalled \/ Top.cx = "root")
    /\ Leave(Top, "ShouldYield", "inconsistant", TRUE)
    /\ UNCHANGED <<ntasks, tasks, len, reentrant, all_next, all_prev, queue,
                   qwaker, wakers, clearing, kind>>

\* lines 178-180: a stale entry of a finished task is dropped
PopDone ==
    /\ InLoop
    /\ PopKind(queue) = "Value"
    /\ LET t == Head(queue).t
       IN /\ tasks[t].done
          /\ tasks' = [tasks EXCEPT ![t].rc = @ - 1]
    /\ queue' = Tail(queue)
    /\ ret' = NoRet
    /\ UNCHANGED <<ntasks, len, reentrant, all_next, all_prev, qwaker,
                   signalled, wakers, stack, clearing, kind>>

\* (a variant without the test of line 183)
IsRunning_Never(t) == FALSE

\* line 183
IsRunning(t) == tasks[t].running

\* (a variant that runs the swap of line 201 before the push of line 185)
RepushTasks_Swap(t) == [tasks EXCEPT ![t].queued = FALSE]

\* lines 184-186: the flags of a task that is pushed back are left as they are
RepushTasks(t) == tasks

\* (a variant of line 190 that is off by one)
FullRound_Late(popped_running) == popped_running > reentrant + 1

\* line 190
FullRound(popped_running) == popped_running > reentrant

\* lines 183-199: the task is being driven by an outer frame
PopRunning ==
    /\ InLoop
    /\ PopKind(queue) = "Value"
    /\ LET t == Head(queue).t
           f == [Top EXCEPT !.popped_running = @ + 1]
       IN /\ ~tasks[t].done
          /\ IsRunning(t)
          /\ tasks' = RepushTasks(t)
          /\ queue' = PushLinked(Tail(queue), t)
          /\ IF FullRound(f.popped_running)
             THEN Leave(f, PollResult(f.iteration), "running", FALSE)
             ELSE /\ ret' = NoRet
                  /\ stack' = [stack EXCEPT ![Len(stack)] = f]
    /\ UNCHANGED <<ntasks, len, reentrant, all_next, all_prev, qwaker,
                   signalled, wakers, clearing, kind>>

\* lines 201-219: the drive step of the popped task starts
PopDrive ==
    /\ InLoop
    /\ PopKind(queue) = "Value"
    /\ LET t == Head(queue).t
       IN /\ ~tasks[t].done
          /\ ~IsRunning(t)
          /\ queue' = Tail(queue)
          /\ IF tasks[t].queued
             THEN /\ tasks' = [tasks EXCEPT ![t].queued = FALSE,
                                             ![t].woken = FALSE,
                                             ![t].running = TRUE,
                                             ![t].fresh = ~Tracked(t)]
                  /\ reentrant' = reentrant + 1
                  /\ stack' = [stack EXCEPT ![Len(stack)] =
                                  [@ EXCEPT !.pc = "drive", !.cur = t,
                                            !.iteration = @ + 1,
                                            !.drv[t] = IF Tracked(t) THEN @ + 1
                                                                     ELSE @]]
                  /\ ret' = NoRet
             ELSE \* assert!(prev) fails: poll unwinds, dropping cur
                  /\ tasks' = [tasks EXCEPT ![t].rc = @ - 1]
                  /\ reentrant' = reentrant
                  /\ Leave(Top, "Unwound", "assert", FALSE)
    /\ UNCHANGED <<ntasks, len, all_next, all_prev, qwaker, signalled, wakers,
                   clearing, kind>>

\* ---- the drive step of the innermost frame (task_drive, line 219) ----
\* cx.waker().wake_by_ref() on the waker built at line 206 (waker.rs, spec 4.4)
WakeSelf ==
    /\ InDrive
    /\ kind[Top.cur] = "any" \/ (kind[Top.cur] = "spin" /\ ~Top.woke)
    /\ LET t == Top.cur
       IN IF tasks[t].queued
          THEN /\ tasks' = [tasks EXCEPT ![t].woken = TRUE]
               /\ UNCHANGED <<queue, qwaker, signalled>>
          ELSE /\ tasks' = [tasks EXCEPT ![t].queued = TRUE, ![t].woken = TRUE,
                                          ![t].rc = @ + 1]
               /\ queue' = PushLinked(queue, t)
               /\ QueueWake
    /\ stack' = [stack EXCEPT ![Len(stack)].woke = TRUE]
    /\ ret' = NoRet
    /\ UNCHANGED <<ntasks, len, reentrant, all_next, all_prev, wakers, clearing, kind>>

\* cx.waker().clone(), the clone handed to another thread (waker.rs, spec 4.4)
CloneWaker ==
    /\ AnyDrive
    /\ LET t == Top.cur
       IN /\ wakers[t] < MaxWakers
          /\ wakers' = [wakers EXCEPT ![t] = @ + 1]
          /\ tasks' = [tasks EXCEPT ![t].rc = @ + 1]
    /\ ret' = NoRet
    /\ UNCHANGED <<ntasks, len, reentrant, all_next, all_prev, queue, qwaker,
                   signalled, stack, clearing, kind>>

\* (a variant of line 240 without the yielded counter)
ShouldYieldNow_NoYielded(yielded, iteration) ==
    ULess(len, iteration)

\* (a variant of line 240 without the iteration count)
ShouldYieldNow_NoIteration(yielded, iteration) ==
    yielded > 2

\* line 240
ShouldYieldNow(yielded, iteration) ==
    yielded > 2 \/ ULess(len, iteration)

\* (a variant that puts a pending task back into the queue itself)
DrivePending_Requeue ==
    /\ InDrive
    /\ kind[Top.cur] \in {"pending", "any"} \/ (kind[Top.cur] = "spin" /\ Top.woke)
    /\ LET t == Top.cur
           y == Top.yielded + (IF tasks[t].queued THEN 1 ELSE 0)
           f == [Top EXCEPT !.pc = "pop", !.cur = None, !.yielded = y,
                            !.woke = FALSE]
       IN /\ IF tasks[t].queued
             THEN /\ tasks' = [tasks EXCEPT ![t].running = FALSE, ![t].rc = @ - 1]
                  /\ queue' = queue
             ELSE /\ tasks' = [tasks EXCEPT ![t].running = FALSE, ![t].queued = TRUE]
                  /\ queue' = PushLinked(queue, t)
          /\ IF ShouldYieldNow(y, Top.iteration)
             THEN /\ signalled' = (signalled \/ Top.cx = "root")
                  /\ Leave(f, "ShouldYield", "yield", TRUE)
             ELSE /\ signalled' = signalled
                  /\ ret' = NoRet
                  /\ stack' = [stack EXCEPT ![Len(stack)] = f]
    /\ reentrant' = reentrant - 1
    /\ UNCHANGED <<ntasks, len, all_next, all_prev, qwaker, wakers,
                   clearing, kind>>

\* lines 220-221, 227-244: task_drive returned Poll::Pending
DrivePending ==
    /\ InDrive
    /\ kind[Top.cur] \in {"pending", "any"} \/ (kind[Top.cur] = "spin" /\ Top.woke)
    /\ LET t == Top.cur
           y == Top.yielded + (IF tasks[t].queued THEN 1 ELSE 0)
           f == [Top EXCEPT !.pc = "pop", !.cur = None, !.yielded = y,
                            !.woke = FALSE]
       IN /\ tasks' = [tasks EXCEPT ![t].running = FALSE, ![t].rc = @ - 1]
          /\ IF ShouldYieldNow(y, Top.iteration)
             THEN /\ signalled' = (signalled \/ Top.cx = "root")
                  /\ Leave(f, "ShouldYield", "yield", TRUE)
             ELSE /\ signalled' = signalled
                  /\ ret' = NoRet
                  /\ stack' = [stack EXCEPT ![Len(stack)] = f]
    /\ reentrant' = reentrant - 1
    /\ UNCHANGED <<ntasks, len, all_next, all_prev, queue, qwaker, wakers,
                   clearing, kind>>

\* lines 220-226: task_drive returned Poll::Ready, the Defer of line 211 runs
DriveReady ==
    /\ InDrive
    /\ kind[Top.cur] \in {"ready", "any"}
    /\ LET t == Top.cur
           h0 == [Heap EXCEPT !.tasks[t].running = FALSE]
           h1 == pop_task_all(h0, t)
       IN /\ tasks' = [h1.tasks EXCEPT ![t].rc = @ - 1]
          /\ all_next' = h1.all_next
          /\ all_prev' = h1.all_prev
          /\ len' = h1.len
    /\ reentrant' = reentrant - 1
    /\ stack' = [stack EXCEPT ![Len(stack)] = [@ EXCEPT !.pc = "pop", !.cur = None,
                                                       !.woke = FALSE]]
    /\ ret' = NoRet
    /\ UNCHANGED <<ntasks, queue, qwaker, signalled, wakers, clearing, kind>>

\* lines 209-219: task_drive unwinds; the Defer runs, lines 220-221 do not
DrivePanic ==
    /\ AnyDrive
    /\ LET t == Top.cur
           h1 == pop_task_all(Heap, t)
       IN /\ tasks' = [h1.tasks EXCEPT ![t].rc = @ - 1]
          /\ all_next' = h1.all_next
          /\ all_prev' = h1.all_prev
          /\ len' = h1.len
    /\ Leave(Top, "Unwound", "panic", FALSE)
    /\ UNCHANGED <<ntasks, reentrant, queue, qwaker, signalled, wakers,
                   clearing, kind>>

\* ---- Schedular::clear ----
\* lines 252-254
RECURSIVE ClearList(_)
ClearList(h) ==
    IF h.all_next = None THEN h ELSE ClearList(pop_task_all(h, h.all_next))

\* lines 256-267, up to an empty or inconsistent queue
RECURSIVE Drain(_, _)
Drain(ts, q) ==
    IF PopKind(q) # "Value" THEN [tasks |-> ts, queue |-> q]
    ELSE Drain([ts EXCEPT ![Head(q).t].rc = @ - 1], Tail(q))

Clear ==
    /\ CanCall
    /\ LET h1 == ClearList(Heap)
           d == Drain(h1.tasks, queue)
       IN /\ tasks' = d.tasks
          /\ queue' = d.queue
          /\ clearing' = (d.queue # <<>>)
          /\ ret' = IF d.queue = <<>> THEN Cleared ELSE NoRet
          /\ all_next' = h1.all_next
          /\ all_prev' = h1.all_prev
          /\ len' = h1.len
    /\ stack' = [i \in DOMAIN stack |-> [stack[i] EXCEPT !.cleared = TRUE]]
    /\ UNCHANGED <<ntasks, reentrant, qwaker, signalled, wakers, kind>>

\* lines 260-263: the producer has finished its push, the drain goes on
ClearResume ==
    /\ clearing
    /\ PopKind(queue) = "Value"
    /\ LET d == Drain(tasks, queue)
       IN /\ tasks' = d.tasks
          /\ queue' = d.queue
          /\ clearing' = (d.queue # <<>>)
          /\ ret' = IF d.queue = <<>> THEN Cleared ELSE NoRet
    /\ UNCHANGED <<ntasks, len, reentrant, all_next, all_prev, qwaker, signalled,
                   wakers, stack, kind>>

\* ---- wakers held by other threads (waker.rs is not part of the sources; spec 4.4) ----
\* Waker::wake: consumes the waker
ExtWake(t) ==
    /\ wakers[t] > 0
    /\ wakers' = [wakers EXCEPT ![t] = @ - 1]
    /\ IF tasks[t].queued
       THEN /\ tasks' = [tasks EXCEPT ![t].rc = @ - 1, ![t].woken = TRUE]
            /\ queue' = queue
       ELSE /\ tasks' = [tasks EXCEPT ![t].queued = TRUE, ![t].woken = TRUE]
            /\ queue' = PushUnlinked(queue, t)
    /\ UNCHANGED <<ntasks, len, reentrant, all_next, all_prev, qwaker, signalled,
                   stack, clearing, ret, kind>>

\* Waker::wake_by_ref: the waker stays alive
ExtWakeByRef(t) ==
    /\ wakers[t] > 0
    /\ IF tasks[t].queued
       THEN /\ tasks' = [tasks EXCEPT ![t].woken = TRUE]
            /\ queue' = queue
       ELSE /\ tasks' = [tasks EXCEPT ![t].queued = TRUE, ![t].woken = TRUE,
                                       ![t].rc = @ + 1]
            /\ queue' = PushUnlinked(queue, t)
    /\ UNCHANGED <<ntasks, len, reentrant, all_next, all_prev, qwaker, signalled,
                   wakers, stack, clearing, ret, kind>>

\* Waker::drop
ExtDrop(t) ==
    /\ wakers[t] > 0
    /\ wakers' = [wakers EXCEPT ![t] = @ - 1]
    /\ tasks' = [tasks EXCEPT ![t].rc = @ - 1]
    /\ UNCHANGED <<ntasks, len, reentrant, all_next, all_prev, queue, qwaker,
                   signalled, stack, clearing, ret, kind>>

\* second half of Queue::push by another thread, then queue.waker().wake()
ExtLink(i) ==
    /\ i \in 1..Len(queue)
    /\ ~queue[i].linked
    /\ queue' = [queue EXCEPT ![i].linked = TRUE]
    /\ QueueWake
    /\ UNCHANGED <<ntasks, tasks, len, reentrant, all_next, all_prev, wakers,
                   stack, clearing, ret, kind>>

\* every step but the call of poll
Step ==
    \/ Spawn(MaxTasks, {"any"})
    \/ PopEmpty
    \/ PopInconsistant
    \/ PopDone
    \/ PopRunning
    \/ PopDrive
    \/ WakeSelf
    \/ CloneWaker
    \/ DrivePending
    \/ DriveReady
    \/ DrivePanic
    \/ Clear
    \/ ClearResume
    \/ \E t \in Tasks : ExtWake(t)
    \/ \E t \in Tasks : ExtWakeByRef(t)
    \/ \E t \in Tasks : ExtDrop(t)
    \/ \E i \in 1..(MaxTasks + 1) : ExtLink(i)

Next == Poll \/ Step

Spec == Init /\ [][Next]_vars

\* The same with nested poll calls that pass a handle of their own.
NextHandle == PollOther \/ Step

HandleSpec == Init /\ [][NextHandle]_vars

\* The schedular with every waker staying on the owning thread: no waker is
\* cloned out of a drive step, so no other thread touches the ready queue; a
\* nested poll call passes the handle of the root executor on.  The futures
\* are of every kind.
NextSeq ==
    \/ Spawn(MaxSeqTasks, Kinds)
    \/ Poll
    \/ PopEmpty
    \/ PopDone
    \/ PopRunning
    \/ PopDrive
    \/ WakeSelf
    \/ DrivePending
    \/ DriveReady
    \/ DrivePanic
    \/ Clear

SeqSpec == Init /\ [][NextSeq]_vars

\* Spec with the owning thread going on in its poll loop: a pop is followed by
\* what lines 160-219 do with its outcome.
PopStep == PopEmpty \/ PopInconsistant \/ PopDone \/ PopRunning \/ PopDrive

LiveSpec == Spec /\ WF_vars(PopStep)

\* ---- derived views of the state ----
Allocated == 1..ntasks

\* the tasks met when following next from the head of the all list
RECURSIVE Walk(_, _)
Walk(t, seen) ==
    IF t = None \/ t \in seen THEN seen ELSE Walk(tasks[t].next, seen \cup {t})
Members == Walk(all_next, {})

\* number of should_poll entries of task t
InQueue(t) == Cardinality({i \in 1..Len(queue) : queue[i].t = t})

\* drive steps of task t in progress, over all poll frames; each holds the waker
\* built at line 206
Driving(t) ==
    Cardinality({i \in 1..Len(stack) : stack[i].pc = "drive" /\ stack[i].cur = t})
\* live wakers of task t: those held by other threads and those of drive steps
LiveWakers(t) == wakers[t] + Driving(t)

\* C1: the live-task counter len equals the number of tasks linked in the
\* all-task list, in every state reached by spawn, poll (nested too), task
\* completion and clear.
C1_LenIsListSize == len = Cardinality(Members)

\* C2: the storage reference count of every task is (1 if linked in the all
\* list) + (its entries in the ready queue) + (its live wakers).
C2_RefCount ==
    \A t \in Allocated :
        tasks[t].rc = (IF t \in Members THEN 1 ELSE 0) + InQueue(t) + LiveWakers(t)

\* C3: the ready queue never holds more than one entry of the same task.
C3_OneEntry == \A t \in Tasks : InQueue(t) <= 1

\* the poll results of lines 148-170, 192-194, 242
Returned == {"Empty", "Pending", "PendingProgress", "ShouldYield"}
\* the last call on the owning thread was a poll call
PollEnded == ret.res \in Returned \cup {"Unwound"}

\* C3 witness: another thread is mid-push with an entry of a task whose drive
\* step then woke itself: the second wake added no entry.
C3_Witness ==
    \E t \in Allocated :
        /\ InDrive /\ Top.cur = t /\ Top.woke
        /\ InQueue(t) = 1
        /\ \E i \in 1..Len(queue) : queue[i].t = t /\ ~queue[i].linked

\* C4: poll on an empty all-task list returns Empty and changes neither len,
\* reentrant, the list head and tail, the ready queue, the registered waker,
\* nor any task.
C4_EmptyPollNoMutation ==
    [][(all_next = None /\ Poll) =>
          /\ ret'.res = "Empty"
          /\ UNCHANGED <<len, reentrant, all_next, all_prev, queue, qwaker,
                         tasks, wakers, stack>>]_vars

\* C4 witness: poll returned Empty while the queue holds a stale entry of a
\* finished task and no waker is registered.
C4_Witness ==
    /\ ret.res = "Empty"
    /\ queue # <<>>
    /\ qwaker = "none"
    /\ all_next = None

C6_NoDoubleDrive ==
    [][\A t \in Tasks :
          Driving(t)' > Driving(t) => (~tasks[t].running /\ Driving(t) = 0)]_vars

\* C6 witness: a nested poll popped and pushed back a running task (one that
\* woke itself before polling), and is driving another task.
C6_Witness ==
    /\ Len(stack) >= 2
    /\ Top.pc = "drive"
    /\ Top.popped_running >= 1
    /\ tasks[stack[1].cur].running
    /\ InQueue(stack[1].cur) = 1

\* a nested poll call is about to pop the ready queue
NestedPop == Len(stack) >= 2 /\ Top.pc = "pop"

\* the bound on pushing back running tasks
C7_Bound ==
    /\ \A i \in 1..Len(stack) : stack[i].popped_running <= reentrant
    /\ (ret.res \in Returned /\ ret.via = "running") =>
           /\ ret.nested
           /\ ret.popped_running = reentrant + 1
           /\ (ret.iteration = 0 => ret.res = "Pending")

\* C7: a nested poll call never loops forever popping and pushing back running
\* tasks: its pop loop always gets to a drive step or returns; no call that goes
\* on looping has popped more running tasks than the reentrancy depth, and the
\* call that pops one more returns at once, as a nested call, with Pending when
\* it drove nothing.
C7_NestedReturns == []C7_Bound /\ (NestedPop ~> ~NestedPop)

\* C7 witness: a nested poll found only running tasks in the queue and
\* returned Pending, having driven nothing.
C7_Witness ==
    /\ ret.res = "Pending"
    /\ ret.via = "running"
    /\ ret.nested
    /\ ret.popped_running = 2

\* C8: when every task ever spawned is a "ready" future, a non-nested poll call
\* that starts with all of them undriven drives each once, returns
\* PendingProgress, and leaves the list empty, len = 0 and every computation
\* released once.
C8_AllComplete ==
    (/\ PollEnded
     /\ ~ret.nested
     /\ ntasks >= 1
     /\ \A t \in Allocated : kind[t] = "ready"
     /\ ret.fresh = Allocated)
    => /\ ret.res = "PendingProgress"
       /\ is_empty
       /\ len = 0
       /\ \A t \in Allocated :
              ret.drv[t] = 1 /\ tasks[t].done /\ tasks[t].dropped = 1

C8_Witness ==
    /\ ret.res = "PendingProgress"
    /\ ntasks = 2
    /\ \A t \in Allocated : kind[t] = "ready" /\ ret.drv[t] = 1
    /\ is_empty

\* the scenario of C9: a and b are the only tasks spawned, a is a "pending"
\* future, b a "ready" one, and a non-nested poll call that started with both
\* undriven has ended
C9_Scenario(a, b) ==
    /\ a # b
    /\ Allocated = {a, b}
    /\ kind[a] = "pending"
    /\ kind[b] = "ready"
    /\ PollEnded
    /\ ~ret.nested
    /\ ret.fresh = {a, b}

\* what the poll call of C9 leaves, apart from its result
C9_Effect(a, b) ==
    /\ ret.drv[a] = 1
    /\ ret.drv[b] = 1
    /\ Members = {a}
    /\ ~is_empty
    /\ len = 1
    /\ tasks[b].done
    /\ ~tasks[a].done

\* C9 as stated: in either spawn order the call drives both, returns
\* PendingProgress, removes only b and leaves a linked.
C9_TwoTasks_Orig ==
    \A a, b \in Tasks :
        C9_Scenario(a, b) => (ret.res = "PendingProgress" /\ C9_Effect(a, b))

\* C9 amended: the call drives both, removes only b and leaves a linked; it
\* returns PendingProgress when a was spawned first and ShouldYield when b was.
C9_TwoTasks ==
    \A a, b \in Tasks :
        C9_Scenario(a, b) =>
            /\ ret.res = (IF a < b THEN "PendingProgress" ELSE "ShouldYield")
            /\ C9_Effect(a, b)

C9_Witness ==
    /\ C9_Scenario(1, 2)
    /\ ret.res = "PendingProgress"
    /\ Members = {1}

\* C10: when clear() has returned, every task is done with its computation
\* released, the list is empty, len = 0, the ready queue is empty, every
\* task's queued flag is set (so a waker enqueues nothing) and stays so while
\* other threads invoke wakers, and poll would return Empty.
C10_AfterClear ==
    ret.res = "Cleared" =>
        /\ \A t \in Allocated : tasks[t].done /\ tasks[t].dropped = 1 /\ tasks[t].queued
        /\ all_next = None
        /\ all_prev = None
        /\ len = 0
        /\ queue = <<>>

\* what a poll call that returned ShouldYield has done to its handle
C11_Signalled ==
    ret.res = "ShouldYield" =>
        /\ ret.notified
        /\ (ret.cx = "root" => signalled)

\* the step of the owning thread on a pop that finds the queue inconsistent
C11_AtOnce ==
    (InLoop /\ PopKind(queue) = "Inconsistant" /\ stack' # stack) =>
        /\ ret'.res = "ShouldYield"
        /\ ret'.via = "inconsistant"
        /\ ret'.iteration = Top.iteration
        /\ stack' = SubSeq(stack, 1, Len(stack) - 1)
        /\ UNCHANGED <<queue, tasks, len, reentrant, all_next, all_prev>>

\* C11: a poll call that returns ShouldYield has signalled the handle of its
\* caller before it returns; a pop that finds the queue inconsistent makes the
\* call return ShouldYield at once: nothing more is popped or driven.
C11_YieldSignals == []C11_Signalled /\ [][C11_AtOnce]_vars

\* C11 witness: a poll call drove a task, then found the queue inconsistent
\* and returned ShouldYield with its handle signalled.
C11_Witness ==
    /\ ret.res = "ShouldYield"
    /\ ret.via = "inconsistant"
    /\ ret.iteration >= 1
    /\ ret.notified
    /\ queue # <<>>

\* C12: after a non-nested poll call has returned Pending or PendingProgress,
\* the ready queue holds no (fully pushed) entry of a task that is not done
\* unless the handle passed to that call has been signalled since.
C12_NoLostWake ==
    ~(/\ ret.res \in {"Pending", "PendingProgress"}
      /\ ~ret.nested
      /\ \E i \in 1..Len(queue) : queue[i].linked /\ ~tasks[queue[i].t].done
      /\ ~signalled)

\* C13: when the cleanup guard of a drive step unlinks a task whose done flag
\* is already set, len, the list head and tail, the links of every task and the
\* number of releases of the computation stay as they are, and the reference
\* count of the task loses only the reference of the waker of the drive step.
C13_DoneUnlinkNoOp ==
    [][((DriveReady \/ DrivePanic) /\ tasks[Top.cur].done) =>
          /\ len' = len
          /\ all_next' = all_next
          /\ all_prev' = all_prev
          /\ \A t \in Tasks : /\ tasks'[t].next = tasks[t].next
                               /\ tasks'[t].prev = tasks[t].prev
                               /\ tasks'[t].dropped = tasks[t].dropped
          /\ tasks'[Top.cur].rc = tasks[Top.cur].rc - 1]_vars

\* C14: when a drive step unwinds, its task leaves the all-task list, is done
\* with its computation released once, len goes down by one and equals the
\* number of tasks linked; no drive step of a done task starts afterwards.
C14_PanicCleansUp ==
    [][/\ DrivePanic =>
            /\ tasks'[Top.cur].done
            /\ tasks'[Top.cur].dropped = 1
            /\ Top.cur \notin Members'
            /\ len' = len - 1
            /\ len' = Cardinality(Members')
       /\ \A t \in Tasks : tasks[t].done => Driving(t)' <= Driving(t)]_vars

\* C15 as stated: queued is set exactly when the ready queue holds an entry of
\* the task.
C15_QueuedFlag_Orig ==
    \A t \in Allocated : tasks[t].queued <=> InQueue(t) >= 1

\* a task with an entry in the ready queue has its queued flag set
C15_EntryQueued ==
    \A t \in Allocated : InQueue(t) >= 1 => tasks[t].queued

\* the steps that change a queued flag
C15_Changes ==
    \A t \in Tasks :
        /\ (~tasks[t].queued /\ tasks'[t].queued) =>
               \/ InQueue(t)' = InQueue(t) + 1
               \/ ~tasks[t].done /\ tasks'[t].done
        /\ (tasks[t].queued /\ ~tasks'[t].queued) =>
               /\ InQueue(t)' = InQueue(t) - 1
               /\ Driving(t)' = Driving(t) + 1

\* C15 amended: queued changes from false to true only in a step that inserts
\* an entry of the task into the ready queue or that unlinks the task (marks it
\* done), and from true to false only when poll has dequeued its entry and
\* starts to drive it; a task with an entry in the queue has queued set.
C15_QueuedFlag == []C15_EntryQueued /\ [][C15_Changes]_vars

\* C15 witness: a finished task has queued set and no entry, while another
\* task has an entry and one of its wakers is held by another thread.
C15_Witness ==
    \E t, u \in Allocated :
        /\ tasks[t].done /\ tasks[t].queued /\ InQueue(t) = 0
        /\ ~tasks[u].done /\ tasks[u].queued /\ InQueue(u) = 1
        /\ wakers[u] = 1

\* C16: in every step and for every task: a done flag that is set stays set,
\* the computation is released at most once and never in a step that leaves
\* the running flag of the task set, and no drive step of a done task starts.
C16_DoneOnce ==
    [][\A t \in Tasks :
          /\ tasks[t].done => tasks'[t].done
          /\ tasks'[t].dropped <= 1
          /\ tasks'[t].dropped > tasks[t].dropped => ~tasks'[t].running
          /\ tasks[t].done => Driving(t)' <= Driving(t)]_vars

\* the tasks met from task t on, following next (fwd) or prev, in order; the
\* walk stops at a task it has met
RECURSIVE Path(_, _, _)
Path(t, seq, fwd) ==
    IF t = None \/ \E i \in 1..Len(seq) : seq[i] = t THEN seq
    ELSE Path(IF fwd THEN tasks[t].next ELSE tasks[t].prev, Append(seq, t), fwd)

\* C17: the members of the all-task list are the tasks that are not done, each
\* once; next from the head visits them and ends at the tail, prev from the
\* tail visits them in reverse order, and the head is absent exactly when the
\* tail is.
C17_ListWellFormed ==
    LET f == Path(all_next, <<>>, TRUE)
        b == Path(all_prev, <<>>, FALSE)
    IN /\ {f[i] : i \in 1..Len(f)} = {t \in Allocated : ~tasks[t].done}
       /\ f # <<>> => /\ tasks[f[Len(f)]].next = None
                      /\ f[Len(f)] = all_prev
                      /\ tasks[f[1]].prev = None
       /\ Len(b) = Len(f)
       /\ \A i \in 1..Len(f) : b[i] = f[Len(f) + 1 - i]
       /\ (all_next = None) <=> (all_prev = None)

\* C18: a drive step of a task starts only when the task was spawned, or one
\* of its wakers invoked, since its previous drive step began; a drive step
\* that returns Pending leaves its task in the all-task list.
C18_DriveAfterWake ==
    [][/\ \A t \in Tasks : Driving(t)' > Driving(t) => tasks[t].woken
       /\ DrivePending => /\ Members' = Members
                          /\ tasks'[Top.cur].done = tasks[Top.cur].done]_vars

\* C18 witness: the only task is in its second drive step of one poll call,
\* after it woke itself in the first, which returned Pending.
C18_Witness ==
    /\ ntasks = 1
    /\ InDrive
    /\ Top.iteration = 2
    /\ 1 \in Members
    /\ ~tasks[1].woken

\* C19: the assertion of line 202 never fails: no poll call is unwound by it,
\* and whenever the entry that the next pop returns is one of a task that is
\* neither done nor running, the queued flag of that task is set.
C19_AssertHolds ==
    /\ ret.res # "Unwound" \/ ret.via # "assert"
    /\ (InLoop /\ PopKind(queue) = "Value") =>
           LET t == Head(queue).t
           IN (~tasks[t].done /\ ~IsRunning(t)) => tasks[t].queued

\* C19 witness: a nested poll call has dequeued the entry that a waker held by
\* another thread pushed, passed the assertion and started the drive step,
\* while the outer frame is driving another task.
C19_Witness ==
    /\ Len(stack) = 2
    /\ InDrive
    /\ stack[1].cur # Top.cur
    /\ wakers[Top.cur] >= 1
    /\ ~tasks[Top.cur].queued

\* C20: the reentrancy counter equals the number of drive steps in progress
\* (one per poll frame inside a drive step), which equals the number of tasks
\* whose running flag is set; it is 0 whenever no poll call is in progress,
\* also after a poll call in which a drive step panicked.
C20_ReentrantCount ==
    LET drives == Cardinality({i \in 1..Len(stack) : stack[i].pc = "drive"})
        running == Cardinality({t \in Allocated : tasks[t].running})
    IN /\ reentrant = drives
       /\ drives = running
       /\ stack = <<>> => reentrant = 0
====
